---- MODULE Spec2Model ----
(***************************************************************************)
(* Model of packing_coloring_optimizer.solve_packing_coloring: the integer *)
(* program built from a graph, the external exact solver, and the decoding *)
(* of the solver's answer into a colour assignment.                        *)
(***************************************************************************)
EXTENDS Integers, Sequences, FiniteSets, TLC

\* Largest number of vertices of an input graph.
MaxN == 4
VARIABLES G, pc, k, x, z, objective, constraints, distances,
          status, varValue, color_assignment, z_val, solves, zs

vars == <<G, pc, k, x, z, objective, constraints, distances,
          status, varValue, color_assignment, z_val, solves, zs>>

\* Python's None, and a value that is not None: a name that is unbound or
\* bound to None holds None, one bound to a number or a set v holds Some(v),
\* and Some(v)[1] is v.
None == <<>>

Some(v) == <<v>>

----------------------------------------------------------------------------
\* Input graphs: G.nodes is 1..n in insertion order, G.edges a set of
\* unordered pairs of distinct vertices.

Nodes(g) == {g.nodes[j] : j \in 1..Len(g.nodes)}

number_of_nodes(g) == Len(g.nodes)

AllEdges(n) == {{a, b} : a, b \in 1..n} \ {{a} : a \in 1..n}

Graphs == UNION {{[nodes |-> [j \in 1..n |-> j], edges |-> E] :
                    E \in SUBSET AllEdges(n)} : n \in 0..MaxN}

Neighbors(g, v) == {u \in Nodes(g) : {v, u} \in g.edges}

\* Breadth-first search from one source: the dict of hop counts of the
\* vertices reachable from it (unreachable vertices are not keys).
RECURSIVE BFS(_, _, _, _, _)
BFS(g, frontier, seen, d, dist) ==
    IF frontier = {} THEN dist
    ELSE LET next == (UNION {Neighbors(g, w) : w \in frontier}) \ seen
         IN  BFS(g, next, seen \cup next, d + 1,
                 dist @@ [u \in next |-> d + 1])

\* Mutant: the table holds only each vertex and its direct neighbours.
all_pairs_shortest_path_length_Adjacent(g) ==
    [v \in Nodes(g) |-> [u \in {v} \cup Neighbors(g, v) |->
                            IF u = v THEN 0 ELSE 1]]

all_pairs_shortest_path_length(g) ==
    [v \in Nodes(g) |-> BFS(g, {v}, {v}, 0, [u \in {v} |-> 0])]

\* dict.get: the value, or None for a missing key.
Get(dict, key) == IF key \in DOMAIN dict THEN Some(dict[key]) ELSE None

\* itertools.combinations(s, 2): the pairs in lexicographic position order.
RECURSIVE CombFrom(_, _, _)
CombFrom(s, a, b) ==
    IF a >= Len(s) THEN <<>>
    ELSE IF b > Len(s) THEN CombFrom(s, a + 1, a + 2)
    ELSE <<(<<s[a], s[b]>>)>> \o CombFrom(s, a, b + 1)

\* Mutant: ordered pairs of distinct elements (itertools.permutations).
combinations2_Ordered(s) == CombFrom(s, 1, 2) \o
    [j \in 1..Len(CombFrom(s, 1, 2)) |->
        <<CombFrom(s, 1, 2)[j][2], CombFrom(s, 1, 2)[j][1]>>]

combinations2(s) == CombFrom(s, 1, 2)

----------------------------------------------------------------------------
\* The model: variables and linear constraints.

XVar(v, i) == <<"x", v, i>>
ZVar == <<"z", 0, 0>>

\* range(1, k + 1)
Colors(kk) == 1..kk

\* x = {(v, i): LpVariable(cat=LpBinary)}: the keys of the dict.
XKeys(g, kk) == {<<v, i>> : v \in Nodes(g), i \in Colors(kk)}

\* z = LpVariable(lowBound=1, upBound=k, cat=LpInteger)
ZDecl(kk) == [lowBound |-> 1, upBound |-> kk]

\* Mutant: the objective is never added to the model.
Objective_Missing == [sense |-> "LpMinimize", expr |-> None]

\* LpProblem(sense=LpMinimize); model += z
Objective == [sense |-> "LpMinimize", expr |-> ZVar]

\* Mutant: at most one colour per vertex.
OneColor_AtMost(v, kk) ==
    [name  |-> <<"OneColor", v, 0, 0>>,
     terms |-> [i \in 1..kk |-> <<1, XVar(v, i)>>],
     sense |-> "<=", rhs |-> 1]

\* lpSum(x[(v, i)] for i in range(1, k + 1)) == 1, "OneColor_v"
OneColor(v, kk) ==
    [name  |-> <<"OneColor", v, 0, 0>>,
     terms |-> [i \in 1..kk |-> <<1, XVar(v, i)>>],
     sense |-> "==", rhs |-> 1]

\* x[(v, i)] + x[(u, i)] <= 1, "Pack_v_u_color_i"
Pack(v, u, i) ==
    [name  |-> <<"Pack", v, u, i>>,
     terms |-> <<(<<1, XVar(v, i)>>), (<<1, XVar(u, i)>>)>>,
     sense |-> "<=", rhs |-> 1]

\* Mutant: the colour index is dropped from the linkage, x[(v, i)] <= z.
MaxColor_Unit(v, i) ==
    [name  |-> <<"MaxColor", v, 0, i>>,
     terms |-> <<(<<1, XVar(v, i)>>), (<<0 - 1, ZVar>>)>>,
     sense |-> "<=", rhs |-> 0]

\* i * x[(v, i)] <= z, "MaxColor_v_i"   (normalised: i*x - z <= 0)
MaxColor(v, i) ==
    [name  |-> <<"MaxColor", v, 0, i>>,
     terms |-> <<(<<i, XVar(v, i)>>), (<<0 - 1, ZVar>>)>>,
     sense |-> "<=", rhs |-> 0]

\* for v in G.nodes: model += OneColor
RECURSIVE OneColorLoop(_, _, _)
OneColorLoop(nodes, j, kk) ==
    IF j > Len(nodes) THEN <<>>
    ELSE <<OneColor(nodes[j], kk)>> \o OneColorLoop(nodes, j + 1, kk)

\* Mutant: strict comparison, d < i.
PackTest_Strict(d, i) == d # None /\ d[1] < i

\* The test of line 43.
PackTest(d, i) == d # None /\ d[1] <= i

\* for v, u in combinations(G.nodes, 2): if d is not None and d <= i: model += Pack
RECURSIVE PackPairs(_, _, _, _)
PackPairs(pairs, j, i, dist) ==
    IF j > Len(pairs) THEN <<>>
    ELSE LET v == pairs[j][1]
             u == pairs[j][2]
             d == Get(dist[v], u)
         IN  (IF PackTest(d, i) THEN <<Pack(v, u, i)>> ELSE <<>>)
             \o PackPairs(pairs, j + 1, i, dist)

\* for i in range(1, k + 1): ...
RECURSIVE PackLoop(_, _, _, _)
PackLoop(nodes, i, kk, dist) ==
    IF i > kk THEN <<>>
    ELSE PackPairs(combinations2(nodes), 1, i, dist)
         \o PackLoop(nodes, i + 1, kk, dist)

\* for v in G.nodes: for i in range(1, k + 1): model += MaxColor
RECURSIVE MaxColorLoop(_, _, _, _)
MaxColorLoop(nodes, j, i, kk) ==
    IF j > Len(nodes) THEN <<>>
    ELSE IF i > kk THEN MaxColorLoop(nodes, j + 1, 1, kk)
    ELSE <<MaxColor(nodes[j], i)>> \o MaxColorLoop(nodes, j, i + 1, kk)

----------------------------------------------------------------------------
\* The external exact solver (model.solve): every optimal solution of the
\* model as built is a possible answer.

\* A candidate: rows[v][i] is the value of x[(v, i)], zc the value of z.
Val(rows, zc, var) == IF var[1] = "z" THEN zc ELSE rows[var[2]][var[3]]

RECURSIVE Lhs(_, _, _, _)
Lhs(terms, j, rows, zc) ==
    IF j > Len(terms) THEN 0
    ELSE terms[j][1] * Val(rows, zc, terms[j][2]) + Lhs(terms, j + 1, rows, zc)

Holds(c, rows, zc) ==
    LET l == Lhs(c.terms, 1, rows, zc)
    IN  IF c.sense = "==" THEN l = c.rhs ELSE l <= c.rhs

\* The x variables a constraint mentions.
VarsOf(c) == {c.terms[j][2] : j \in 1..Len(c.terms)} \ {ZVar}

Max(S) == CHOOSE m \in S : \A w \in S : w <= m

\* What a constraint is over: z alone; one x variable (and z); several
\* variables of one vertex; variables of several vertices, the largest named.
Tag(c) ==
    LET V == VarsOf(c)
        W == {var[2] : var \in V}
    IN  IF V = {} THEN <<"global", 0, 0>>
        ELSE IF Cardinality(V) = 1 THEN <<"unary", Max(W), Max({var[3] : var \in V})>>
        ELSE IF Cardinality(W) = 1 THEN <<"own", Max(W), 0>>
        ELSE <<"cross", Max(W), 0>>

\* The positions in the constraint list of the constraints of each kind.
IndexOf(tags, n, kk) ==
    [global |-> {j \in DOMAIN tags : tags[j][1] = "global"},
     unary  |-> [key \in (1..n) \X Colors(kk) |->
                   {j \in DOMAIN tags : tags[j] = <<"unary", key[1], key[2]>>}],
     own    |-> [v \in 1..n |-> {j \in DOMAIN tags : tags[j] = <<"own", v, 0>>}],
     cross  |-> [v \in 1..n |-> {j \in DOMAIN tags : tags[j] = <<"cross", v, 0>>}]]

Index(cs, n, kk) ==
    CHOOSE idx \in {IndexOf(tags, n, kk) :
                       tags \in {[j \in 1..Len(cs) |-> Tag(cs[j])]}} : TRUE

\* The values of x[(v, i)] that the constraints over that variable (and z)
\* alone allow.
Dom(cs, idx, v, i, zc) ==
    {b \in {0, 1} :
        \A j \in idx.unary[<<v, i>>] : Holds(cs[j], (v :> (i :> b)), zc)}

\* The assignments of the binary variables of vertex v that satisfy the
\* constraints over v's variables (and z) alone.
Rows(cs, idx, v, kk, zc) ==
    UNION {{r \in {f : f \in [Colors(kk) -> {0, 1}]} :
               /\ \A i \in Colors(kk) : r[i] \in dom[i]
               /\ \A j \in idx.own[v] : Holds(cs[j], (v :> r), zc)} :
              dom \in {[i \in Colors(kk) |-> Dom(cs, idx, v, i, zc)]}}

\* The assignments of the variables of vertices 1..n that satisfy every
\* constraint whose variables they cover, for z = zc.
RECURSIVE Partial(_, _, _, _, _)
Partial(cs, idx, n, kk, zc) ==
    IF n = 0 THEN {<<>>}
    ELSE {p \in {Append(q[1], q[2]) :
                   q \in Partial(cs, idx, n - 1, kk, zc)
                         \X Rows(cs, idx, n, kk, zc)} :
             \A j \in idx.cross[n] : Holds(cs[j], p, zc)}

\* The feasible assignments of the x variables for z = zc.
FeasibleX(cs, idx, n, kk, zc) ==
    IF \A j \in idx.global : Holds(cs[j], <<>>, zc)
    THEN Partial(cs, idx, n, kk, zc) ELSE {}

\* Branch on z from its lower bound up: the feasible assignments at the
\* least feasible value of z, none when z's range is exhausted.
RECURSIVE Search(_, _, _, _, _, _)
Search(cs, idx, n, kk, zc, ub) ==
    IF zc > ub THEN {}
    ELSE UNION {IF F # {}
                THEN {[xs |-> [key \in (1..n) \X Colors(kk) |->
                                  rows[key[1]][key[2]]],
                       zv |-> zc] : rows \in F}
                ELSE Search(cs, idx, n, kk, zc + 1, ub) :
                   F \in {FeasibleX(cs, idx, n, kk, zc)}}

\* Every feasible assignment, whatever its z.
AllFeasible(cs, idx, n, kk, lb, ub) ==
    UNION {{[xs |-> [key \in (1..n) \X Colors(kk) |-> rows[key[1]][key[2]]],
             zv |-> zc] : rows \in FeasibleX(cs, idx, n, kk, zc)} :
              zc \in lb..ub}

\* The solver's possible answers with status Optimal, the values of all
\* variables: the feasible assignments of least z when z is the objective to
\* minimise, any feasible assignment when the model has no objective.
OptimalSolutions(cs, n, kk, zdecl, obj) ==
    UNION {IF obj.expr = ZVar
           THEN Search(cs, idx, n, kk, zdecl.lowBound, zdecl.upBound)
           ELSE AllFeasible(cs, idx, n, kk, zdecl.lowBound, zdecl.upBound) :
              idx \in {Index(cs, n, kk)}}

----------------------------------------------------------------------------
\* Decoding (lines 57-63).

\* Mutant: the threshold is 1 instead of 0.5.
Above_One(val) == val > 1

\* x[(v, i)].varValue > 0.5, on values that are integers
Above(val) == 2 * val > 1

\* for i in range(1, k + 1): if x[(v, i)].varValue > 0.5: ...; break
RECURSIVE Scan(_, _, _, _)
Scan(xs, v, i, kk) ==
    IF i > kk THEN None
    ELSE IF Above(xs[<<v, i>>]) THEN Some(i)
    ELSE Scan(xs, v, i + 1, kk)

\* color_assignment after the loop over G.nodes: a vertex whose scan ends
\* without a hit gets no key.
DecodeMap(g, xs, kk) ==
    LET hit == {v \in Nodes(g) : Scan(xs, v, 1, kk) # None}
    IN  [v \in hit |-> Scan(xs, v, 1, kk)[1]]

----------------------------------------------------------------------------
Init ==
    /\ G \in Graphs
    /\ pc = "start"
    /\ k = None
    /\ x = None
    /\ z = None
    /\ objective = None
    /\ constraints = <<>>
    /\ distances = None
    /\ status = "Not Solved"
    /\ varValue = None
    /\ color_assignment = None
    /\ z_val = None
    /\ solves = 0
    /\ zs = <<>>

\* Lines 19-31: k, the model, the variables and the objective.
CreateModel ==
    /\ pc = "start"
    /\ k' = Some(number_of_nodes(G))
    /\ x' = Some(XKeys(G, number_of_nodes(G)))
    /\ z' = ZDecl(number_of_nodes(G))
    /\ objective' = Objective
    /\ pc' = "onecolor"
    /\ UNCHANGED <<G, constraints, distances, status, varValue,
                   color_assignment, z_val, solves, zs>>

\* Lines 34-35.
AddOneColor ==
    /\ pc = "onecolor"
    /\ constraints' = constraints \o OneColorLoop(G.nodes, 1, k[1])
    /\ pc' = "packing"
    /\ UNCHANGED <<G, k, x, z, objective, distances, status, varValue,
                   color_assignment, z_val, solves, zs>>

\* Lines 39-44.
AddPacking ==
    /\ pc = "packing"
    /\ distances' = all_pairs_shortest_path_length(G)
    /\ constraints' = constraints \o PackLoop(G.nodes, 1, k[1], distances')
    /\ pc' = "maxcolor"
    /\ UNCHANGED <<G, k, x, z, objective, status, varValue,
                   color_assignment, z_val, solves, zs>>

\* Lines 47-49.
AddMaxColor ==
    /\ pc = "maxcolor"
    /\ constraints' = constraints \o MaxColorLoop(G.nodes, 1, 1, k[1])
    /\ pc' = "solve"
    /\ UNCHANGED <<G, k, x, z, objective, distances, status, varValue,
                   color_assignment, z_val, solves, zs>>

\* Mutant: a solve that does not end Optimal is tried again.
Solve_Retry ==
    /\ pc = "solve"
    /\ \E S \in {OptimalSolutions(constraints, number_of_nodes(G), k[1], z,
                                    objective)} :
           \/ /\ S # {}
              /\ varValue' \in S
              /\ status' = "Optimal"
              /\ pc' = "solved"
           \/ /\ S = {}
              /\ varValue' = varValue
              /\ status' = "Infeasible"
              /\ pc' = "solved"
           \/ /\ varValue' = varValue
              /\ status' \in {"Undefined", "Not Solved"}
              /\ pc' = IF solves = 0 THEN "solve" ELSE "solved"
    /\ solves' = solves + 1
    /\ UNCHANGED <<G, k, x, z, objective, constraints, distances,
                   color_assignment, z_val, zs>>

\* Line 52: model.solve. The solver certifies an optimum and stores its
\* values, or finds the model infeasible, or ends without a certificate.
Solve ==
    /\ pc = "solve"
    /\ \E S \in {OptimalSolutions(constraints, number_of_nodes(G), k[1], z,
                                    objective)} :
           \/ /\ S # {}
              /\ varValue' \in S
              /\ status' = "Optimal"
           \/ /\ S = {}
              /\ varValue' = varValue
              /\ status' = "Infeasible"
           \/ /\ varValue' = varValue
              /\ status' \in {"Undefined", "Not Solved"}
    /\ solves' = solves + 1
    /\ pc' = "solved"
    /\ UNCHANGED <<G, k, x, z, objective, constraints, distances,
                   color_assignment, z_val, zs>>

\* Line 54.
IsOptimal(st) == st = "Optimal"

\* Lines 54-64.
Decode ==
    /\ pc = "solved"
    /\ IsOptimal(status)
    /\ z_val' = Some(varValue.zv)
    /\ color_assignment' = Some(DecodeMap(G, varValue.xs, k[1]))
    /\ zs' = Append(zs, z_val')
    /\ pc' = "done"
    /\ UNCHANGED <<G, k, x, z, objective, constraints, distances, status,
                   varValue, solves>>

\* Mutant: an empty dict is returned in place of None.
ReturnOnFailure_Partial == <<Some(<<>>), None>>

\* return None, None
ReturnOnFailure == <<None, None>>

\* Lines 65-66.
ReportFailure ==
    /\ pc = "solved"
    /\ ~IsOptimal(status)
    /\ color_assignment' = ReturnOnFailure[1]
    /\ z_val' = ReturnOnFailure[2]
    /\ zs' = Append(zs, z_val')
    /\ pc' = "done"
    /\ UNCHANGED <<G, k, x, z, objective, constraints, distances, status,
                   varValue, solves>>

\* The caller runs solve_packing_coloring a second time on the same graph:
\* every local of the function is fresh, only the z value the first run
\* returned is kept, in zs.
CallAgain ==
    /\ pc = "done"
    /\ Len(zs) = 1
    /\ pc' = "start"
    /\ k' = None
    /\ x' = None
    /\ z' = None
    /\ objective' = None
    /\ constraints' = <<>>
    /\ distances' = None
    /\ status' = "Not Solved"
    /\ varValue' = None
    /\ color_assignment' = None
    /\ z_val' = None
    /\ solves' = 0
    /\ UNCHANGED <<G, zs>>

Next ==
    \/ CreateModel
    \/ AddOneColor
    \/ AddPacking
    \/ AddMaxColor
    \/ Solve
    \/ Decode
    \/ ReportFailure
    \/ CallAgain

Spec == Init /\ [][Next]_vars

\* The positions of control in a call, in program order.
PcValues ==
    {"start", "onecolor", "packing", "maxcolor", "solve", "solved", "done"}

\* Control leaves the current statement of a call that has not returned.
\* Every step of Next moves pc, and in every state of a running call some
\* step of Next is enabled, so on the behaviours of Spec the Advance steps
\* are the steps of Next inside a call.
Advance ==
    /\ pc # "done"
    /\ pc' \in PcValues \ {pc}

\* The call is synchronous and blocking: a statement that has been reached
\* runs to its end, and the solver returns a terminal status. Nothing
\* obliges the caller to call again.

LiveSpec == Spec /\ WF_pc(Advance)

----------------------------------------------------------------------------
\* Reference definitions for the properties, independent of the model built.

\* The sets of vertices within 0, 1, ..., |V| hops of v.
RECURSIVE BallSeq(_, _)
BallSeq(g, balls) ==
    IF Len(balls) > Len(g.nodes) THEN balls
    ELSE BallSeq(g, Append(balls,
             {u \in Nodes(g) : \E w \in balls[Len(balls)] :
                                  u = w \/ {w, u} \in g.edges}))

\* The hop distance from v of every vertex some path from v reaches.
RefRow(balls) ==
    [u \in balls[Len(balls)] |->
        CHOOSE d \in 0..(Len(balls) - 1) :
            /\ u \in balls[d + 1]
            /\ d > 0 => u \notin balls[d]]

RefDist(g) ==
    [v \in Nodes(g) |->
        CHOOSE row \in {RefRow(balls) : balls \in {BallSeq(g, <<{v}>>)}} : TRUE]

Connected(dist, v, u) == u \in DOMAIN dist[v]

\* The pairs of distinct vertices joined by a path, with their distance.
ConnectedPairs(g, dist) ==
    {<<p[1], p[2], dist[p[1]][p[2]]>> :
        p \in {q \in Nodes(g) \X Nodes(g) :
                  q[1] < q[2] /\ Connected(dist, q[1], q[2])}}

\* c is a packing colouring: equal colours i only at distance > i.
ValidPacking(pairs, c) ==
    \A p \in pairs : c[p[1]] = c[p[2]] => p[3] > c[p[1]]

\* Exhaustive search: the least m such that some colouring with colours
\* 1..m is a packing colouring.
RECURSIVE RefSearch(_, _, _)
RefSearch(g, pairs, m) ==
    IF \E c \in [Nodes(g) -> 1..m] : ValidPacking(pairs, c) THEN m
    ELSE RefSearch(g, pairs, m + 1)

RefPCN(g) ==
    CHOOSE m \in {RefSearch(g, pairs, 0) :
                     pairs \in {ConnectedPairs(g, RefDist(g))}} : TRUE

Returned == pc = "done"

ReturnedColoring == pc = "done" /\ color_assignment # None

CompleteGraph(n) == [nodes |-> [j \in 1..n |-> j], edges |-> AllEdges(n)]

----------------------------------------------------------------------------
\* C1: whenever a colour assignment is returned, two distinct vertices with
\* the same colour i and a finite shortest-path distance d have d > i.
C1_PackingProperty ==
    ReturnedColoring =>
        \E dist \in {RefDist(G)} :
            \A v, u \in DOMAIN color_assignment[1] :
                (/\ v # u
                 /\ color_assignment[1][v] = color_assignment[1][u]
                 /\ Connected(dist, v, u))
                => dist[v][u] > color_assignment[1][v]

\* Two connected vertices share a colour in a returned assignment.
C1_Witness ==
    /\ ReturnedColoring
    /\ \E v, u \in DOMAIN color_assignment[1] :
          /\ v # u
          /\ color_assignment[1][v] = color_assignment[1][u]
          /\ Connected(RefDist(G), v, u)

\* C2: a returned z value is the packing chromatic number found by
\* exhaustive search over all packing colourings of the graph.
C2_ZIsPackingChromaticNumber ==
    (Returned /\ z_val # None) => z_val[1] = RefPCN(G)

\* The complete graph on 4 vertices returns 4.
C2_Witness ==
    /\ Returned
    /\ G = CompleteGraph(4)
    /\ z_val = Some(4)

\* C3: the key set of a returned assignment is the vertex set, and every
\* vertex maps to one colour of 1..|V|.
C3_EveryVertexOneColor ==
    ReturnedColoring =>
        /\ DOMAIN color_assignment[1] = Nodes(G)
        /\ \A v \in Nodes(G) : color_assignment[1][v] \in 1..Len(G.nodes)

\* An assignment is returned for a graph of at least two vertices.
C3_Witness ==
    /\ ReturnedColoring
    /\ Len(G.nodes) >= 2
    /\ DOMAIN color_assignment[1] = Nodes(G)

\* C4: the returned z is the largest assigned colour, and no vertex has a
\* colour above z.
C4_ZIsMaxColor ==
    (ReturnedColoring /\ z_val # None) =>
        /\ \A v \in DOMAIN color_assignment[1] : color_assignment[1][v] <= z_val[1]
        /\ \E v \in DOMAIN color_assignment[1] : color_assignment[1][v] = z_val[1]

\* A returned assignment uses several colours, the largest being z.
C4_Witness ==
    /\ ReturnedColoring
    /\ z_val # None
    /\ z_val[1] >= 3
    /\ \E v, u \in DOMAIN color_assignment[1] :
          color_assignment[1][v] < color_assignment[1][u]

\* C5: on any status other than Optimal both results are None; a colour map
\* and a z value are returned only on Optimal, and then both.
C5_AbsentUnlessOptimal ==
    Returned =>
        /\ status # "Optimal" => (color_assignment = None /\ z_val = None)
        /\ status = "Optimal" => (color_assignment # None /\ z_val # None)

\* A call returned after the backend ended without a certificate.
C5_Witness ==
    /\ Returned
    /\ status = "Undefined"
    /\ color_assignment = None
    /\ z_val = None

\* C6: for every input graph the model built with k = |V| is feasible, so
\* the solver never ends Infeasible.
C6_NeverInfeasible == status # "Infeasible"

\* C7: the z values returned by two runs on the same graph are equal.
C7_SameZ ==
    \A a, b \in 1..Len(zs) : (zs[a] # None /\ zs[b] # None) => zs[a] = zs[b]

\* Two runs returned a z value for a graph with several optimal solutions.
C7_Witness ==
    /\ Returned
    /\ Len(zs) >= 2
    /\ zs[1] # None
    /\ zs[2] # None
    /\ Cardinality(OptimalSolutions(constraints, Len(G.nodes), k[1], z, objective)) > 1

\* The (v, u, i) with v before u, a defined distance d, and d <= i.
ExpectedPacks(g, dist) ==
    {t \in Nodes(g) \X Nodes(g) \X (1..Len(g.nodes)) :
        /\ t[1] < t[2]
        /\ Connected(dist, t[1], t[2])
        /\ dist[t[1]][t[2]] <= t[3]}

PackPositions == {j \in 1..Len(constraints) : constraints[j].name[1] = "Pack"}

\* The (v, u, i) with v before u of which c is the constraint
\* x(v,i) + x(u,i) <= 1, in either order of the two terms; (0, 0, 0) when c
\* is no such constraint.
PackKey(c) ==
    IF /\ Len(c.terms) = 2
       /\ c.terms[1][1] = 1
       /\ c.terms[2][1] = 1
       /\ c.terms[1][2][1] = "x"
       /\ c.terms[2][2][1] = "x"
       /\ c.terms[1][2][3] = c.terms[2][2][3]
       /\ c.terms[1][2][2] # c.terms[2][2][2]
       /\ c.sense = "<="
       /\ c.rhs = 1
    THEN IF c.terms[1][2][2] < c.terms[2][2][2]
         THEN <<c.terms[1][2][2], c.terms[2][2][2], c.terms[1][2][3]>>
         ELSE <<c.terms[2][2][2], c.terms[1][2][2], c.terms[1][2][3]>>
    ELSE <<0, 0, 0>>

\* The packing loop has run and the model has not been solved yet.
PackingAdded == pc \in {"maxcolor", "solve"}

\* C8: the packing constraints of the model are exactly one constraint
\* x(v,i) + x(u,i) <= 1 for each colour i and each unordered pair {v,u} whose
\* distance d is defined with d <= i; none for a pair without a path, none
\* for a colour i < d.
C8_PackingConstraints ==
    PackingAdded =>
        \E P \in {PackPositions} :
            \E K \in {{PackKey(constraints[j]) : j \in P}} :
                /\ K = ExpectedPacks(G, RefDist(G))
                /\ Cardinality(K) = Cardinality(P)

\* The packing loop ran on a graph with a pair without a path and a pair at
\* distance 2, constrained for colour 2 and not for colour 1.
C8_Witness ==
    /\ pc = "solve"
    /\ \E v, u \in Nodes(G) : ~Connected(RefDist(G), v, u)
    /\ \E v, u \in Nodes(G) :
          /\ v < u
          /\ Connected(RefDist(G), v, u)
          /\ RefDist(G)[v][u] = 2
          /\ \E j \in PackPositions : PackKey(constraints[j]) = <<v, u, 2>>
          /\ \A j \in PackPositions : PackKey(constraints[j]) # <<v, u, 1>>

\* C9: on Optimal, exactly one x(v,i) of every vertex is above 0.5, and the
\* decoded colour of the vertex is that colour, the first one the scan in
\* increasing colour order meets; no vertex is left without a colour.
C9_DecodeUnique ==
    ReturnedColoring =>
        \A v \in Nodes(G) :
            \E hits \in {{i \in 1..k[1] : 2 * varValue.xs[<<v, i>>] > 1}} :
                /\ Cardinality(hits) = 1
                /\ v \in DOMAIN color_assignment[1]
                /\ color_assignment[1][v] \in hits
                /\ \A i \in hits : color_assignment[1][v] <= i

\* A vertex was decoded to a colour the scan reached after lower colours.
C9_Witness ==
    /\ ReturnedColoring
    /\ \E v \in Nodes(G) :
          /\ v \in DOMAIN color_assignment[1]
          /\ color_assignment[1][v] >= 2
          /\ varValue.xs[<<v, 1>>] = 0

\* The names of the constraints of the finished model.
ExpectedNames(g, dist) ==
    {<<"OneColor", v, 0, 0>> : v \in Nodes(g)}
    \cup {<<"MaxColor", t[1], 0, t[2]>> : t \in Nodes(g) \X (1..Len(g.nodes))}
    \cup {<<"Pack", t[1], t[2], t[3]>> : t \in ExpectedPacks(g, dist)}

ModelComplete ==
    /\ objective # None
    /\ objective.expr = ZVar
    /\ {constraints[j].name : j \in 1..Len(constraints)} =
          ExpectedNames(G, RefDist(G))

C10_Step ==
    /\ solves' > solves => (pc = "solve" /\ solves = 0 /\ pc' = "solved")
    /\ (pc \in {"solved", "done"} /\ pc' # "start") =>
          (/\ constraints' = constraints
           /\ objective' = objective
           /\ x' = x
           /\ z' = z
           /\ solves' = solves)
    /\ pc = "solved" => pc' = "done"
    /\ pc' = "done" =>
          /\ solves' = 1
          /\ \/ color_assignment' # None /\ z_val' # None
             \/ color_assignment' = None /\ z_val' = None

\* C10: a call is Build -> Solve -> (Decode | Report failure): the solver
\* runs once, only on the finished model; the model does not change after
\* the solve; nothing is solved again; every call ends in one of the two
\* outcomes.
C10_SingleShot ==
    /\ [](pc = "solve" => ModelComplete)
    /\ [][C10_Step]_vars
    /\ (pc = "start") ~> (pc = "done")

\* A second call has ended, after one solve.
C10_Witness ==
    /\ pc = "done"
    /\ solves = 1
    /\ Len(zs) = 2

====
